---- MODULE Spec2Model ----
(***************************************************************************)
(* Model of the utt project-summary plugin                                 *)
(* (src/src/utt/plugins/project_summary.py).                               *)
(*                                                                         *)
(* Representation.                                                         *)
(*  - A Python str is a sequence of one-character strings, so that len,    *)
(*    concatenation, padding and lexicographic comparison are computed.    *)
(*  - A timedelta is its length in units of 1/2 second (a natural number). *)
(*    All inputs are multiples of 0.5 s, which timedelta and float both    *)
(*    represent exactly; total_seconds() is the value divided by 2 and     *)
(*    int() of it is the integer quotient.                                 *)
(*  - The output sink is the sequence of lines written to it.              *)
(***************************************************************************)
EXTENDS Integers, Sequences, FiniteSets, TLC

VARIABLES
    activities,   \* the Sequence[_v1.Activity] handed over by the host
    model,        \* the ProjectSummaryModel, or None before construction
    total,        \* local `total` of _calculate_total_duration (a timedelta)
    view,         \* the ProjectSummaryView ([show_perc]), or None
    output,       \* the lines written to the _v1.Output sink so far
    renders       \* number of render() calls made on the view

vars == <<activities, model, total, view, output, renders>>

-----------------------------------------------------------------------------
(* Bounds *)

MaxActs == 3        \* longest input activity sequence
MaxRenders == 2     \* render() calls on one view

-----------------------------------------------------------------------------
(* Python values *)

None == [none |-> TRUE]

WORK == "WORK"
BREAK == "BREAK"

\* Code points of the characters that occur in project keys (str ordering).
Ord(c) ==
    CASE c = " " -> 32
      [] c = "*" -> 42
      [] c = "-" -> 45
      [] c = ":" -> 58
      [] c = "A" -> 65
      [] c = "C" -> 67
      [] c = "a" -> 97
      [] c = "b" -> 98
      [] c = "c" -> 99
      [] c = "e" -> 101
      [] c = "h" -> 104
      [] c = "i" -> 105
      [] c = "k" -> 107
      [] c = "l" -> 108
      [] c = "n" -> 110
      [] c = "r" -> 114
      [] c = "s" -> 115
      [] c = "t" -> 116
      [] c = "u" -> 117
      [] c = "v" -> 118
      [] c = "y" -> 121

\* s < t for Python str (lexicographic by code point, a proper prefix first).
RECURSIVE StrLess(_, _)
StrLess(s, t) ==
    IF t = <<>> THEN FALSE
    ELSE IF s = <<>> THEN TRUE
    ELSE IF Head(s) = Head(t) THEN StrLess(Tail(s), Tail(t))
    ELSE Ord(Head(s)) < Ord(Head(t))

\* c * n
RECURSIVE Repeat(_, _)
Repeat(c, n) == IF n <= 0 THEN <<>> ELSE <<c>> \o Repeat(c, n - 1)

\* f"{s:<{w}}"
LJust(s, w) == s \o Repeat(" ", w - Len(s))

\* f"{s:>{w}}" (the default alignment of a number in a field)
RJust(s, w) == Repeat(" ", w - Len(s)) \o s

Digit(n) == <<"0", "1", "2", "3", "4", "5", "6", "7", "8", "9">>[n + 1]

\* str(n) / f"{n}" for n >= 0
RECURSIVE Dec(_)
Dec(n) == IF n < 10 THEN <<Digit(n)>> ELSE Dec(n \div 10) \o <<Digit(n % 10)>>

\* f"{n:02d}" for n >= 0
Dec02(n) == IF n < 10 THEN <<"0">> \o Dec(n) ELSE Dec(n)

\* max(seq, default=d) over a sequence of integers
RECURSIVE MaxOf(_, _)
MaxOf(seq, d) ==
    IF seq = <<>> THEN d
    ELSE LET m == MaxOf(Tail(seq), Head(seq))
         IN  IF Head(seq) >= m THEN Head(seq) ELSE m

-----------------------------------------------------------------------------
(* format_duration, format_title *)

\* Mutant: minutes rounded to the nearest minute instead of truncated.
format_duration_rounded(duration) ==
    LET secs    == duration \div 2
        hours   == secs \div 3600
        minutes == ((secs % 3600) + 30) \div 60
    IN  Dec(hours) \o <<"h">> \o Dec02(minutes)

\* Mutant: minutes written without the 02d zero padding.
format_duration_unpadded(duration) ==
    LET secs    == duration \div 2
        hours   == secs \div 3600
        minutes == (secs % 3600) \div 60
    IN  Dec(hours) \o <<"h">> \o Dec(minutes)

format_duration(duration) ==
    LET total_seconds == duration \div 2
        hours         == total_seconds \div 3600
        remainder     == total_seconds % 3600
        minutes       == remainder \div 60
    IN  Dec(hours) \o <<"h">> \o Dec02(minutes)

\* The two lines that print(format_title(title)) writes.
format_title(title) == <<title, Repeat("-", Len(title))>>

-----------------------------------------------------------------------------
(* ProjectSummaryModel *)

_filter_work_activities(acts) == SelectSeq(acts, LAMBDA act : act.type = WORK)

\* sum((x.duration ...), timedelta()) over a sequence of activities
RECURSIVE SumDuration(_)
SumDuration(acts) ==
    IF acts = <<>> THEN 0 ELSE Head(acts).duration + SumDuration(Tail(acts))

\* sum((p["duration_obj"] ...), timedelta()) over a sequence of project dicts
RECURSIVE SumDurationObj(_)
SumDurationObj(ps) ==
    IF ps = <<>> THEN 0 ELSE Head(ps).duration_obj + SumDurationObj(Tail(ps))

\* Mutant: the scan keeps going, so the last flagged activity wins.
RECURSIVE _get_current_activity_info_last(_)
_get_current_activity_info_last(acts) ==
    IF acts = <<>> THEN None
    ELSE IF acts[Len(acts)].is_current_activity
         THEN [name         |-> acts[Len(acts)].name,
               duration     |-> format_duration(acts[Len(acts)].duration),
               duration_obj |-> acts[Len(acts)].duration]
         ELSE _get_current_activity_info_last(SubSeq(acts, 1, Len(acts) - 1))

RECURSIVE _get_current_activity_info(_)
_get_current_activity_info(acts) ==
    IF acts = <<>> THEN None
    ELSE IF Head(acts).is_current_activity
         THEN [name         |-> Head(acts).name,
               duration     |-> format_duration(Head(acts).duration),
               duration_obj |-> Head(acts).duration]
         ELSE _get_current_activity_info(Tail(acts))

\* sorted(acts, key=project): stable, ascending by project key.
RECURSIVE InsertByProject(_, _)
InsertByProject(sorted, act) ==
    IF sorted = <<>> THEN <<act>>
    ELSE IF StrLess(act.project, Head(sorted).project)
         THEN <<act>> \o sorted
         ELSE <<Head(sorted)>> \o InsertByProject(Tail(sorted), act)

RECURSIVE SortedByProject(_)
SortedByProject(acts) ==
    IF acts = <<>> THEN <<>>
    ELSE InsertByProject(SortedByProject(SubSeq(acts, 1, Len(acts) - 1)),
                         acts[Len(acts)])

\* Length of the run of activities at the head of acts whose key is project.
RECURSIVE RunLength(_, _)
RunLength(acts, project) ==
    IF acts = <<>> \/ Head(acts).project # project THEN 0
    ELSE 1 + RunLength(Tail(acts), project)

\* The loop over itertools.groupby(sorted_activities, key).
RECURSIVE GroupBy(_)
GroupBy(sorted_activities) ==
    IF sorted_activities = <<>> THEN <<>>
    ELSE LET project         == Head(sorted_activities).project
             n               == RunLength(sorted_activities, project)
             activities_list == SubSeq(sorted_activities, 1, n)
             total_duration  == SumDuration(activities_list)
         IN  <<[duration     |-> format_duration(total_duration),
                project      |-> project,
                duration_obj |-> total_duration]>>
             \o GroupBy(SubSeq(sorted_activities, n + 1, Len(sorted_activities)))

\* sorted(result, key=duration_obj, reverse=True): stable, descending.
RECURSIVE InsertByDurationDesc(_, _)
InsertByDurationDesc(sorted, r) ==
    IF sorted = <<>> THEN <<r>>
    ELSE IF r.duration_obj > Head(sorted).duration_obj
         THEN <<r>> \o sorted
         ELSE <<Head(sorted)>> \o InsertByDurationDesc(Tail(sorted), r)

RECURSIVE SortedByDurationDesc(_)
SortedByDurationDesc(result) ==
    IF result = <<>> THEN <<>>
    ELSE InsertByDurationDesc(
             SortedByDurationDesc(SubSeq(result, 1, Len(result) - 1)),
             result[Len(result)])

Reverse(seq) == [i \in 1..Len(seq) |-> seq[Len(seq) + 1 - i]]

\* Mutant: the groups reach the final sort in descending key order, so that
\* projects of equal duration come out in descending key order.
_groupby_keys_descending(acts) ==
    SortedByDurationDesc(Reverse(GroupBy(SortedByProject(
        SelectSeq(acts, LAMBDA act : ~act.is_current_activity)))))

\* Mutant: the current activities are not taken out before grouping.
_groupby_with_current(acts) ==
    SortedByDurationDesc(GroupBy(SortedByProject(acts)))

\* Mutant: the groups are returned in key order, the final sort left out.
_groupby_unranked(acts) ==
    GroupBy(SortedByProject(
        SelectSeq(acts, LAMBDA act : ~act.is_current_activity)))

_groupby_project_sorted_by_duration(acts) ==
    LET non_current_activities ==
            SelectSeq(acts, LAMBDA act : ~act.is_current_activity)
        sorted_activities == SortedByProject(non_current_activities)
        result == GroupBy(sorted_activities)
    IN  SortedByDurationDesc(result)

\* Mutant: the current activity is left out of the total.
CalculateTotal_without_current(projects, current_activity) ==
    SumDurationObj(projects)

\* The local `total` of _calculate_total_duration.
CalculateTotal(projects, current_activity) ==
    SumDurationObj(projects)
        + (IF current_activity # None THEN current_activity.duration_obj ELSE 0)

\* Mutant: the total is formatted from the rows' durations cut to whole
\* minutes (120 half seconds) instead of from their exact sum.
RECURSIVE SumWholeMinutes(_)
SumWholeMinutes(ps) ==
    IF ps = <<>> THEN 0
    ELSE (Head(ps).duration_obj \div 120) * 120 + SumWholeMinutes(Tail(ps))

_calculate_total_duration_from_rows(projects, current_activity) ==
    format_duration(
        SumWholeMinutes(projects)
            + (IF current_activity # None
               THEN (current_activity.duration_obj \div 120) * 120 ELSE 0))

_calculate_total_duration(projects, current_activity) ==
    format_duration(CalculateTotal(projects, current_activity))

ProjectSummaryModel(acts) ==
    LET work_activities  == _filter_work_activities(acts)
        projects         == _groupby_project_sorted_by_duration(work_activities)
        current_activity == _get_current_activity_info(acts)
    IN  [projects         |-> projects,
         current_activity |-> current_activity,
         total_duration   |-> _calculate_total_duration(projects, current_activity)]

-----------------------------------------------------------------------------
(* ProjectSummaryView *)

\* (d / tot) * 100 rounded to one decimal, in tenths of a percent. The 'f'
\* presentation type rounds the float to the nearest tenth, an exact tie to
\* the even tenth; for the durations drawn here the float product lies on
\* the same side of every tie as the exact quotient.
PercTenths(d, tot) ==
    LET n == d * 1000
        q == n \div tot
        r == n % tot
    IN  IF 2 * r > tot THEN q + 1
        ELSE IF 2 * r = tot THEN q + (q % 2)
        ELSE q

\* f"({perc:5.1f}%)"
PercText(d, tot) ==
    LET t == PercTenths(d, tot)
    IN  <<"(">> \o RJust(Dec(t \div 10) \o <<".">> \o <<Digit(t % 10)>>, 5)
            \o <<"%", ")">>

Lengths(ps) == [i \in 1..Len(ps) |-> Len(ps[i].project)]

DurationLengths(ps) == [i \in 1..Len(ps) |-> Len(ps[i].duration)]

\* One iteration of `for project in self._model.projects`.
ProjectRow(project, show_perc, tot, label_width, duration_width) ==
    LET duration_str ==
            IF show_perc /\ tot > 0
            THEN LJust(project.duration, duration_width) \o <<" ">>
                     \o PercText(project.duration_obj, tot)
            ELSE project.duration
    IN  LJust(project.project, label_width) \o <<":", " ">> \o duration_str

\* The body of `if self._model.current_activity`.
CurrentActivityRow(current_activity, show_perc, tot, label_width) ==
    LET name == current_activity.name
        duration_str ==
            IF show_perc /\ tot > 0
            THEN current_activity.duration \o <<" ">>
                     \o PercText(current_activity.duration_obj, tot)
            ELSE current_activity.duration
    IN  LJust(name, label_width) \o <<":", " ">> \o duration_str

\* Mutant: the Total row's percentage written without its decimal.
TotalRow_plain(total_duration, show_perc, label_width, duration_width) ==
    LET total_str ==
            IF show_perc
            THEN LJust(total_duration, duration_width)
                     \o <<" ", "(", "1", "0", "0", "%", ")">>
            ELSE total_duration
    IN  LJust(<<"T", "o", "t", "a", "l">>, label_width)
            \o <<":", " ">> \o total_str

TotalRow(total_duration, show_perc, label_width, duration_width) ==
    LET total_str ==
            IF show_perc
            THEN LJust(total_duration, duration_width)
                     \o <<" ", "(", "1", "0", "0", ".", "0", "%", ")">>
            ELSE total_duration
    IN  LJust(<<"T", "o", "t", "a", "l">>, label_width)
            \o <<":", " ">> \o total_str

Title == <<"P", "r", "o", "j", "e", "c", "t", " ",
           "S", "u", "m", "m", "a", "r", "y">>

\* Mutant: the current activity's name takes part in the label width.
max_project_length_with_current(m) ==
    MaxOf(Lengths(m.projects)
              \o (IF m.current_activity # None
                  THEN <<Len(m.current_activity.name)>> ELSE <<>>), 0)

\* max((len(p["project"]) for p in self._model.projects), default=0)
max_project_length(m) == MaxOf(Lengths(m.projects), 0)

\* The local total_seconds of render (in half seconds, like every timedelta).
total_seconds(m) ==
    SumDurationObj(m.projects)
        + (IF m.current_activity # None
           THEN m.current_activity.duration_obj ELSE 0)

max_duration_length(m, show_perc) ==
    IF show_perc
    THEN MaxOf(Append(DurationLengths(m.projects), Len(m.total_duration)), 0)
    ELSE 0

RECURSIVE InsertRowAt(_, _, _)
InsertRowAt(rows, k, row) ==
    IF k <= 1 THEN <<row>> \o rows
    ELSE <<Head(rows)>> \o InsertRowAt(Tail(rows), k - 1, row)

\* Mutant: the current activity's row is ranked among the project rows by
\* duration instead of being written after them.
Rows_current_ranked(m, show_perc) ==
    LET project_rows ==
            [i \in 1..Len(m.projects) |->
                ProjectRow(m.projects[i], show_perc, total_seconds(m),
                           max_project_length(m),
                           max_duration_length(m, show_perc))]
        ahead ==
            Cardinality({i \in 1..Len(m.projects) :
                m.projects[i].duration_obj
                    >= m.current_activity.duration_obj})
    IN  IF m.current_activity # None
        THEN InsertRowAt(project_rows, ahead + 1,
                 CurrentActivityRow(m.current_activity, show_perc,
                                    total_seconds(m), max_project_length(m)))
        ELSE project_rows

\* The rows written between the title block and the blank line before Total:
\* the for loop over the projects, then the current activity if there is one.
Rows(m, show_perc) ==
    [i \in 1..Len(m.projects) |->
        ProjectRow(m.projects[i], show_perc, total_seconds(m),
                   max_project_length(m), max_duration_length(m, show_perc))]
    \o (IF m.current_activity # None
        THEN <<CurrentActivityRow(m.current_activity, show_perc,
                                  total_seconds(m), max_project_length(m))>>
        ELSE <<>>)

\* The lines that render(output) writes for model m under show_perc.
render(m, show_perc) ==
    <<<<>>>>
    \o format_title(Title)
    \o <<<<>>>>
    \o Rows(m, show_perc)
    \o <<<<>>>>
    \o <<TotalRow(m.total_duration, show_perc, max_project_length(m),
                  max_duration_length(m, show_perc))>>
    \o <<<<>>>>

-----------------------------------------------------------------------------
(* Inputs: the activities the host can hand over *)

NameA == <<"a", ":", " ", "t">>
NameBeta == <<"b", "e", "t", "a", ":", " ", "t">>
NameTask == <<"t", "a", "s", "k">>
NameCurrent == <<"-", "-", " ", "C", "u", "r", "r", "e", "n", "t", " ",
                 "A", "c", "t", "i", "v", "i", "t", "y", " ", "-", "-">>
NameLunch == <<"l", "u", "n", "c", "h", " ", "*", "*">>

\* name.project of each name: the text before the first ": ", else "".
ProjectOf(name) ==
    IF name = NameA THEN <<"a">>
    ELSE IF name = NameBeta THEN <<"b", "e", "t", "a">>
    ELSE <<>>

Activity(name, duration, type, is_current) ==
    [name                |-> name,
     project             |-> ProjectOf(name),
     duration            |-> duration,
     type                |-> type,
     is_current_activity |-> is_current]

\* Durations in half seconds of the regular activities of each name:
\* 0, 90 s, 30 min, 25 h.
RegularDurations(name) ==
    IF name = NameA THEN {180, 3600}
    ELSE IF name = NameBeta THEN {180, 3600, 180000}
    ELSE {0, 3600}

\* 0, 59 min 59.5 s
CurrentDurations == {0, 7199}

ActivityPool ==
    {Activity(NameA, d, WORK, FALSE) : d \in RegularDurations(NameA)}
    \cup {Activity(NameBeta, d, WORK, FALSE) : d \in RegularDurations(NameBeta)}
    \cup {Activity(NameTask, d, WORK, FALSE) : d \in RegularDurations(NameTask)}
    \cup {Activity(NameCurrent, d, WORK, TRUE) : d \in CurrentDurations}
    \cup {Activity(NameA, 3600, WORK, TRUE)}
    \cup {Activity(NameLunch, 3600, BREAK, c) : c \in BOOLEAN}

Inputs == UNION {[1..n -> ActivityPool] : n \in 0..MaxActs}

-----------------------------------------------------------------------------
(* Operations *)

Init ==
    /\ activities \in Inputs
    /\ model = None
    /\ total = 0
    /\ view = None
    /\ output = <<>>
    /\ renders = 0

\* model = ProjectSummaryModel(activities)
Construct ==
    /\ model = None
    /\ model' = ProjectSummaryModel(activities)
    /\ total' = CalculateTotal(model'.projects, model'.current_activity)
    /\ UNCHANGED <<activities, view, output, renders>>

\* view = ProjectSummaryView(model, show_perc)
NewView(show_perc) ==
    /\ model # None
    /\ view = None
    /\ view' = [show_perc |-> show_perc]
    /\ UNCHANGED <<activities, model, total, output, renders>>

\* Mutant: render consumes the project list while writing its rows.
Render_consuming ==
    /\ view # None
    /\ renders < MaxRenders
    /\ output' = output \o render(model, view.show_perc)
    /\ renders' = renders + 1
    /\ model' = [model EXCEPT !.projects = <<>>]
    /\ UNCHANGED <<activities, total, view>>

\* view.render(output)
Render ==
    /\ view # None
    /\ renders < MaxRenders
    /\ output' = output \o render(model, view.show_perc)
    /\ renders' = renders + 1
    /\ UNCHANGED <<activities, model, total, view>>

\* ProjectSummaryHandler.__call__ with args.show_perc = show_perc
HandlerCall(show_perc) ==
    /\ model = None
    /\ model' = ProjectSummaryModel(activities)
    /\ total' = CalculateTotal(model'.projects, model'.current_activity)
    /\ view' = [show_perc |-> show_perc]
    /\ output' = output \o render(model', show_perc)
    /\ renders' = 1
    /\ UNCHANGED activities

Next ==
    \/ Construct
    \/ \E show_perc \in BOOLEAN : NewView(show_perc)
    \/ Render
    \/ \E show_perc \in BOOLEAN : HandlerCall(show_perc)

Spec == Init /\ [][Next]_vars

-----------------------------------------------------------------------------
(* Vocabulary of the properties *)

Constructed == model # None

Rendered == renders >= 1

HasCurrent == model.current_activity # None

NumProjects == Len(model.projects)

\* Durations of the entries 1..n of ps, added from the last one down.
RECURSIVE SumTo(_, _)
SumTo(ps, n) == IF n = 0 THEN 0 ELSE ps[n].duration_obj + SumTo(ps, n - 1)

\* Indices of the work-type, non-current input activities.
Regular ==
    {i \in DOMAIN activities :
        activities[i].type = WORK /\ ~activities[i].is_current_activity}

RECURSIVE SumIdx(_)
SumIdx(S) ==
    IF S = {} THEN 0
    ELSE LET i == CHOOSE j \in S : TRUE
         IN  activities[i].duration + SumIdx(S \ {i})

Remove(seq, i) == SubSeq(seq, 1, i - 1) \o SubSeq(seq, i + 1, Len(seq))

IsPrefix(p, s) == Len(p) <= Len(s) /\ SubSeq(s, 1, Len(p)) = p

\* Number of lines one render writes for the current model.
BlockLen == 7 + NumProjects + (IF HasCurrent THEN 1 ELSE 0)

\* The lines of the k-th render.
Block(k) == SubSeq(output, (k - 1) * BlockLen + 1, k * BlockLen)

\* line is label, padding spaces, ": ", duration, and possibly more.
LabelledRow(line, label, duration) ==
    /\ IsPrefix(label, line)
    /\ \E k \in Len(label)..Len(line) :
          /\ \A j \in (Len(label) + 1)..k : line[j] = " "
          /\ IsPrefix(<<":", " ">> \o duration, SubSeq(line, k + 1, Len(line)))

HasPercentage(line) == \E j \in 1..Len(line) : line[j] \in {"%", "(", ")"}

Digits == {"0", "1", "2", "3", "4", "5", "6", "7", "8", "9"}

DigitVal(c) == CHOOSE n \in 0..9 : Digit(n) = c

RECURSIVE ParseNat(_)
ParseNat(s) ==
    IF s = <<>> THEN 0
    ELSE 10 * ParseNat(SubSeq(s, 1, Len(s) - 1)) + DigitVal(s[Len(s)])

\* Every (timedelta, formatted string) pair the model holds.
Formatted ==
    {<<model.projects[i].duration_obj, model.projects[i].duration>> :
        i \in 1..NumProjects}
    \cup (IF HasCurrent
          THEN {<<model.current_activity.duration_obj,
                  model.current_activity.duration>>}
          ELSE {})
    \cup {<<total, model.total_duration>>}

\* str is hours, 'h', two-digit minutes for the timedelta d: d, in half
\* seconds, lies in the minute that starts at h hours and mins minutes.
FormatsAs(d, str) ==
    \E p \in 2..Len(str) :
        /\ str[p] = "h"
        /\ Len(str) = p + 2
        /\ \A j \in (1..Len(str)) \ {p} : str[j] \in Digits
        /\ p > 2 => str[1] # "0"
        /\ LET h    == ParseNat(SubSeq(str, 1, p - 1))
               mins == ParseNat(SubSeq(str, p + 1, p + 2))
           IN  /\ mins \in 0..59
               /\ 2 * (3600 * h + 60 * mins) <= d
               /\ d < 2 * (3600 * h + 60 * mins + 60)

-----------------------------------------------------------------------------
(* Properties *)

\* C1: the grand total behind total_duration is exactly the sum of the
\* duration_obj of all entries of model.projects plus the duration_obj of
\* model.current_activity when it is present.
C1_GrandTotalIsSum ==
    Constructed =>
        /\ total = SumTo(model.projects, NumProjects)
                     + (IF HasCurrent
                        THEN model.current_activity.duration_obj ELSE 0)
        /\ model.total_duration = format_duration(total)

C1_Witness ==
    /\ Constructed
    /\ NumProjects >= 2
    /\ HasCurrent
    /\ model.current_activity.duration_obj > 0

\* C2: model.projects has exactly one entry per distinct project key among
\* the work-type, non-current activities, without duplicates, and each
\* entry's duration_obj is the sum of exactly those activities' durations.
C2_GroupingIsPartition ==
    Constructed =>
        /\ {model.projects[j].project : j \in 1..NumProjects}
               = {activities[i].project : i \in Regular}
        /\ \A j, k \in 1..NumProjects :
               model.projects[j].project = model.projects[k].project => j = k
        /\ \A j \in 1..NumProjects :
               model.projects[j].duration_obj
                   = SumIdx({i \in Regular :
                        activities[i].project = model.projects[j].project})

C2_Witness ==
    /\ Constructed
    /\ NumProjects = 1
    /\ Cardinality(Regular) = 2
    /\ \E i \in DOMAIN activities :
          /\ activities[i].is_current_activity
          /\ activities[i].type = WORK
          /\ activities[i].duration > 0
          /\ \E j \in 1..NumProjects :
                model.projects[j].project = activities[i].project

\* C3: model.projects is in descending order of duration_obj.
C3_SortedDescending ==
    Constructed =>
        \A i \in 1..(NumProjects - 1) :
            model.projects[i].duration_obj >= model.projects[i + 1].duration_obj

C3_Witness ==
    /\ Constructed
    /\ NumProjects = 3
    /\ model.projects[1].duration_obj > model.projects[2].duration_obj
    /\ model.projects[2].duration_obj > model.projects[3].duration_obj
    /\ StrLess(model.projects[3].project, model.projects[1].project)

\* C4: removing any non-work activity from the input leaves projects,
\* current_activity and total_duration of the model unchanged.
C4_NonWorkNeverAffects ==
    Constructed =>
        \A i \in DOMAIN activities :
            activities[i].type # WORK =>
                ProjectSummaryModel(Remove(activities, i)) = model

\* C5: with a zero grand total and show_perc set, no written line carries a
\* parenthesised percentage.
C5_NoPercentageWhenZero ==
    (Rendered /\ view.show_perc /\ total = 0) =>
        \A j \in 1..Len(output) : ~HasPercentage(output[j])

\* C6: every render writes a blank line, the title, dashes of the title's
\* length, a blank line, the project rows in model order, the current
\* activity's row iff there is one, a blank line, the Total row and a
\* blank line.
C6_LineOrder ==
    Rendered =>
        /\ Len(output) = renders * BlockLen
        /\ \A k \in 1..renders :
              LET b == Block(k)
                  n == NumProjects
                  c == IF HasCurrent THEN 1 ELSE 0
              IN  /\ b[1] = <<>>
                  /\ b[2] = Title
                  /\ Len(b[3]) = Len(Title)
                  /\ \A j \in 1..Len(b[3]) : b[3][j] = "-"
                  /\ b[4] = <<>>
                  /\ \A i \in 1..n :
                        LabelledRow(b[4 + i], model.projects[i].project,
                                    model.projects[i].duration)
                  /\ HasCurrent =>
                        LabelledRow(b[5 + n], model.current_activity.name,
                                    model.current_activity.duration)
                  /\ b[5 + n + c] = <<>>
                  /\ LabelledRow(b[6 + n + c], <<"T", "o", "t", "a", "l">>,
                                 model.total_duration)
                  /\ b[7 + n + c] = <<>>

C6_Witness ==
    /\ Rendered
    /\ NumProjects = 2
    /\ HasCurrent
    /\ model.current_activity.duration_obj > model.projects[1].duration_obj

\* C7: every formatted duration is floor(s / 3600) in decimal, 'h', and
\* floor((s mod 3600) / 60) as two digits in 00..59, for s the duration
\* truncated to whole seconds; seconds are dropped, hours do not wrap at 24.
C7_FormatDuration ==
    Constructed => \A pair \in Formatted : FormatsAs(pair[1], pair[2])

C7_Witness ==
    /\ Constructed
    /\ total % 2 = 1
    /\ (total \div 2) % 60 >= 30
    /\ total \div 7200 >= 24
    /\ ((total \div 2) % 3600) \div 60 = 59

\* C8: every project row is its label left-justified to the longest project
\* label, then ': '; the first colon of each project row is at that column
\* and the current activity's name plays no part in the width.
C8_ProjectLabelColumn ==
    Rendered =>
        LET w == CHOOSE x \in 0..100 :
                    /\ \A i \in 1..NumProjects :
                           Len(model.projects[i].project) <= x
                    /\ \/ NumProjects = 0 /\ x = 0
                       \/ \E i \in 1..NumProjects :
                              Len(model.projects[i].project) = x
        IN  \A k \in 1..renders : \A i \in 1..NumProjects :
                LET line  == Block(k)[4 + i]
                    label == model.projects[i].project
                IN  /\ Len(line) >= w + 2
                    /\ IsPrefix(label, line)
                    /\ \A j \in (Len(label) + 1)..w : line[j] = " "
                    /\ line[w + 1] = ":"
                    /\ line[w + 2] = " "
                    /\ \A j \in 1..w : line[j] # ":"

C8_Witness ==
    /\ Rendered
    /\ HasCurrent
    /\ \E i, j \in 1..NumProjects :
          /\ Len(model.projects[i].project) < Len(model.projects[j].project)
          /\ Len(model.projects[j].project) < Len(model.current_activity.name)

\* C9: for the empty input the model has no projects, no current activity
\* and total_duration '0h00', and a render without percentages writes the
\* title block, no rows, and the Total row 'Total: 0h00'.
C9_EmptyInput ==
    (activities = <<>> /\ Constructed) =>
        /\ model.projects = <<>>
        /\ model.current_activity = None
        /\ model.total_duration = <<"0", "h", "0", "0">>
        /\ (Rendered /\ ~view.show_perc) =>
              Block(1) = << <<>>,
                            Title,
                            <<"-", "-", "-", "-", "-", "-", "-", "-",
                              "-", "-", "-", "-", "-", "-", "-">>,
                            <<>>,
                            <<>>,
                            <<"T", "o", "t", "a", "l", ":", " ",
                              "0", "h", "0", "0">>,
                            <<>> >>

C9_Witness ==
    /\ activities = <<>>
    /\ Rendered
    /\ ~view.show_perc
    /\ Len(output) = 7

\* C10: two renders of one view write the same lines twice, and no render
\* changes projects, current_activity or total_duration of the model.
C10_RenderIdempotent ==
    /\ [](renders = 2 =>
            /\ Len(output) % 2 = 0
            /\ SubSeq(output, 1, Len(output) \div 2)
                 = SubSeq(output, Len(output) \div 2 + 1, Len(output)))
    /\ [][Constructed => model' = model]_vars

C10_Witness ==
    /\ renders = 2
    /\ view.show_perc
    /\ NumProjects >= 2
    /\ HasCurrent
    /\ total > 0


\* Indices of the input activities flagged current.
Flagged == {i \in DOMAIN activities : activities[i].is_current_activity}

\* C11: with several activities flagged current, current_activity carries the
\* name and duration of the first flagged one in input order; with none
\* flagged it is absent.
C11_FirstCurrentWins ==
    Constructed =>
        IF Flagged = {} THEN model.current_activity = None
        ELSE LET first == CHOOSE i \in Flagged : \A j \in Flagged : i <= j
             IN  /\ HasCurrent
                 /\ model.current_activity.name = activities[first].name
                 /\ model.current_activity.duration_obj
                        = activities[first].duration
                 /\ FormatsAs(activities[first].duration,
                              model.current_activity.duration)

C11_Witness ==
    /\ Constructed
    /\ \E i, j \in Flagged :
          /\ i < j
          /\ activities[i].name # activities[j].name
          /\ activities[i].duration # activities[j].duration
          /\ activities[i].type = WORK
          /\ activities[j].type = WORK


\* The rearrangements of a sequence of n elements.
Rearrangements(n) ==
    {f \in [1..n -> 1..n] : \A i, j \in 1..n : f[i] = f[j] => i = j}

Permuted(seq, f) == [i \in 1..Len(seq) |-> seq[f[i]]]

\* The model has been built and not yet handed to a view; no later step
\* assigns to it, so what holds of it here holds of it ever after.
JustConstructed == Constructed /\ view = None

\* C12: model.projects does not depend on the order of the input
\* activities, and projects of equal total duration are in ascending
\* lexicographic order of their key.
C12_DeterministicOrder ==
    Constructed =>
        /\ JustConstructed =>
               \A f \in Rearrangements(Len(activities)) :
                   ProjectSummaryModel(Permuted(activities, f)).projects
                       = model.projects
        /\ \A i \in 1..(NumProjects - 1) :
               model.projects[i].duration_obj
                       = model.projects[i + 1].duration_obj
                   => StrLess(model.projects[i].project,
                              model.projects[i + 1].project)

C12_Witness ==
    /\ Constructed
    /\ NumProjects = 3
    /\ model.projects[1].duration_obj = model.projects[2].duration_obj
    /\ model.projects[2].duration_obj = model.projects[3].duration_obj
    /\ model.projects[1].duration_obj > 0
    /\ JustConstructed
    /\ StrLess(activities[3].project, activities[2].project)
    /\ StrLess(activities[2].project, activities[1].project)


\* The text of a row after the ": " that follows its label.
AfterSeparator(line, label) ==
    LET k == CHOOSE x \in (Len(label) + 1)..(Len(line) - 1) :
                 /\ line[x] = ":" /\ line[x + 1] = " "
                 /\ \A y \in (Len(label) + 1)..(x - 1) : line[y] = " "
    IN  SubSeq(line, k + 2, Len(line))

\* The labels of the rows of one render, in the order written: the
\* projects, the current activity if present, the Total.
RowLabels ==
    [i \in 1..NumProjects |-> model.projects[i].project]
    \o (IF HasCurrent THEN <<model.current_activity.name>> ELSE <<>>)
    \o << <<"T", "o", "t", "a", "l">> >>

\* The duration strings of the same rows.
RowDurations ==
    [i \in 1..NumProjects |-> model.projects[i].duration]
    \o (IF HasCurrent THEN <<model.current_activity.duration>> ELSE <<>>)
    \o <<model.total_duration>>

\* The rows of the k-th render, in the same order.
RowLines(k) ==
    LET n == NumProjects + (IF HasCurrent THEN 1 ELSE 0)
    IN  [i \in 1..n |-> Block(k)[4 + i]] \o <<Block(k)[6 + n]>>

\* C13: with show_perc set and a positive grand total, the duration of every
\* row (project rows, current-activity row, Total row) is left-justified to
\* the longest duration string of all rows, so that the opening parenthesis
\* is at the same offset after ': ' in each of them.
C13_PercentageColumn ==
    (Rendered /\ view.show_perc /\ total > 0) =>
        LET w == MaxOf([i \in 1..Len(RowDurations) |-> Len(RowDurations[i])], 0)
        IN  \A k \in 1..renders : \A i \in 1..Len(RowDurations) :
                LET text == AfterSeparator(RowLines(k)[i], RowLabels[i])
                IN  /\ Len(text) >= w + 2
                    /\ IsPrefix(RowDurations[i], text)
                    /\ \A j \in (Len(RowDurations[i]) + 1)..w : text[j] = " "
                    /\ text[w + 1] = " "
                    /\ text[w + 2] = "("


HasPercentSign(line) == \E j \in 1..Len(line) : line[j] = "%"

\* The Total row of the k-th render.
TotalLine(k) == Block(k)[BlockLen - 1]

\* C14: whenever a render shows percentages, the Total row's percentage is
\* the literal '(100.0%)'; with show_perc false no line contains '%'.
C14_TotalIsHundred ==
    Rendered =>
        \A k \in 1..renders :
            /\ (\E j \in 1..BlockLen : HasPercentSign(Block(k)[j])) =>
                  LET line == TotalLine(k)
                      from == CHOOSE x \in 1..Len(line) :
                                  /\ line[x] = "("
                                  /\ \A y \in 1..(x - 1) : line[y] # "("
                  IN  SubSeq(line, from, Len(line))
                          = <<"(", "1", "0", "0", ".", "0", "%", ")">>
            /\ ~view.show_perc =>
                  \A j \in 1..BlockLen : ~HasPercentSign(Block(k)[j])

C14_Witness ==
    /\ Rendered
    /\ view.show_perc
    /\ NumProjects = 3
    /\ model.projects[1].duration_obj = model.projects[2].duration_obj
    /\ model.projects[2].duration_obj = model.projects[3].duration_obj
    /\ model.projects[1].duration_obj > 0
    /\ PercTenths(model.projects[1].duration_obj, total) * 3 # 1000


\* C15: when at most one activity is flagged current and it is of work type,
\* the grand total is the sum of the durations of all work-type activities,
\* current or not.
C15_NoWorkTimeLost ==
    (/\ Constructed
     /\ Cardinality(Flagged) <= 1
     /\ \A i \in Flagged : activities[i].type = WORK) =>
        /\ total = SumIdx({i \in DOMAIN activities : activities[i].type = WORK})
        /\ FormatsAs(total, model.total_duration)

C15_Witness ==
    /\ Constructed
    /\ Cardinality(Flagged) = 1
    /\ \E i, j, k \in DOMAIN activities :
          /\ activities[i].is_current_activity
          /\ activities[i].type = WORK
          /\ activities[i].duration > 0
          /\ activities[j].type = WORK
          /\ ~activities[j].is_current_activity
          /\ activities[j].duration > 0
          /\ activities[k].type # WORK


\* The whole minutes that a string 'XhYY' shows.
MinutesShown(str) ==
    LET p == CHOOSE x \in 1..Len(str) : str[x] = "h"
    IN  60 * ParseNat(SubSeq(str, 1, p - 1))
            + ParseNat(SubSeq(str, p + 1, Len(str)))

\* The timedeltas of the project rows and of the current-activity row.
RowDurationObjs ==
    [i \in 1..NumProjects |-> model.projects[i].duration_obj]
    \o (IF HasCurrent THEN <<model.current_activity.duration_obj>> ELSE <<>>)

RECURSIVE SumSeq(_)
SumSeq(seq) == IF seq = <<>> THEN 0 ELSE Head(seq) + SumSeq(Tail(seq))

====
